---- MODULE Spec2Model ----
(***************************************************************************)
(* Model of src/app8.py: the Portland Heritage Trees dashboard.            *)
(*                                                                         *)
(* One run of the script is one action (Run): the memoized fetch           *)
(* get_clean_data, the sidebar bounds and widgets, the three filters, the  *)
(* map payload, the metrics and the CSV export.  The remote service is     *)
(* the environment: what it answers is chosen when a run asks it.  The     *)
(* clock advances with Tick.                                               *)
(*                                                                         *)
(* Numbers.  Every JSON number is a Python float; a float is modelled in   *)
(* fixed point as an integer count of halves (1.0 is 2, 2.5 is 5), so that *)
(* int() and the float formats have something to truncate and print.       *)
(* A Python int i is the integer i.  An optional value is a sequence of    *)
(* length at most one: <<>> is None / NaN, <<v>> is the value v.           *)
(*                                                                         *)
(* Libraries.  st.cache_data(ttl) keeps one entry for the argumentless     *)
(* function and serves it while it is less than ttl seconds old.  The      *)
(* widgets return a value among their options; the map, the metric and     *)
(* the download widgets accept what they are given.                        *)
(***************************************************************************)
EXTENDS Integers, Sequences, FiniteSets, TLC

VARIABLES cache, now, run

vars == <<cache, now, run>>

----------------------------------------------------------------------------
(* Bounds of the model *)

\* longest feature list a response of the full system carries
MaxFeatures == 2
\* largest dataset the pipeline is run on
MaxRecords == 2
\* number of half-TTL steps the clock may take
MaxTicks == 2

----------------------------------------------------------------------------
(* Optional values and floats *)

Missing == <<>>
Some(v) == <<v>>
IsMissing(o) == o = <<>>
Val(o) == o[1]

\* float(i) for a Python int i
FloatOf(i) == 2 * i

\* int(x) for a finite float x: truncation toward zero
PyInt(x) == IF x >= 0 THEN x \div 2 ELSE -((-x) \div 2)

\* str(x) / f"{x}" for a finite float x with at most one binary digit
FloatStr(x) ==
  LET a == IF x >= 0 THEN x ELSE -x
  IN (IF x < 0 THEN "-" ELSE "") \o ToString(a \div 2) \o "."
       \o (IF a % 2 = 0 THEN "0" ELSE "5")

\* f"{o}" for a float cell: NaN prints as nan
NumStr(o) == IF IsMissing(o) THEN "nan" ELSE FloatStr(Val(o))

\* f"{o}" for a cell of the COMMON column (object dtype keeps None)
NameStr(o) == IF IsMissing(o) THEN "None" ELSE Val(o)

----------------------------------------------------------------------------
(* The remote service: what requests.get(url).json() meets *)

Species == {"Oak", "Pine"}
\* 1.0 and 2.5 feet
Heights == {2, 5}
\* 1.0 and 2.0 inches
Diameters == {2, 4}

Opt(S) == {Missing} \cup {Some(v) : v \in S}

Properties == [COMMON : Opt(Species), HEIGHT : Opt(Heights), DIAMETER : Opt(Diameters)]

NullGeometry == [present |-> FALSE, coordinates |-> <<>>]
Point(lon, lat) == [present |-> TRUE, coordinates |-> <<lon, lat>>]

SeqsUpTo(S, n) == UNION {[1..k -> S] : k \in 0..n}

OkResponse(fs) == [status |-> "ok", features |-> fs]
NetworkError == [status |-> "network_error", features |-> <<>>]
InvalidJson == [status |-> "invalid_json", features |-> <<>>]
Failures == {NetworkError, InvalidJson}
\* a run that issued no request
NoRequest == [status |-> "none", features |-> <<>>]

----------------------------------------------------------------------------
(* get_clean_data *)

Columns == <<"COMMON", "HEIGHT", "DIAMETER", "lat", "lon">>

EmptyFrame == <<>>

\* lines 30-33: one feature to one row; reading a key of None or an index
\* past the end of the coordinates raises
FeatureRaises(f) ==
  \/ ~f.geometry.present
  \/ Len(f.geometry.coordinates) < 2

FeatureRow(f) ==
  [COMMON |-> f.properties.COMMON,
   HEIGHT |-> f.properties.HEIGHT,
   DIAMETER |-> f.properties.DIAMETER,
   lat |-> f.geometry.coordinates[2],
   lon |-> f.geometry.coordinates[1]]

\* lines 27-34: the body of the try block
TryBody(response) ==
  IF response.status # "ok"
    THEN [raised |-> TRUE, frame |-> EmptyFrame]
  ELSE IF \E i \in 1..Len(response.features) : FeatureRaises(response.features[i])
    THEN [raised |-> TRUE, frame |-> EmptyFrame]
  ELSE [raised |-> FALSE,
        frame |-> [i \in 1..Len(response.features) |-> FeatureRow(response.features[i])]]

\* the function without its except clause
GetCleanDataNoExcept(response) ==
  LET body == TryBody(response)
  IN [escaped |-> body.raised, frame |-> body.frame]

\* lines 23-37: the function with its except clause, which catches whatever
\* the body raises and returns the empty frame; escaped says whether an
\* exception leaves the function
get_clean_data(response) ==
  LET body == TryBody(response)
  IN IF body.raised
       THEN [escaped |-> FALSE, frame |-> EmptyFrame]
       ELSE [escaped |-> FALSE, frame |-> body.frame]

\* line 22: the time-to-live of st.cache_data, in seconds
TTL == 60 * 60

NoEntry == [valid |-> FALSE, at |-> 0, value |-> EmptyFrame]

\* an entry served up to and including the instant it turns ttl seconds old
CacheHitInclusive(c, t) == c.valid /\ t - c.at <= TTL

\* line 22: an entry is served while it is less than ttl seconds old
CacheHit(c, t) == c.valid /\ t - c.at < TTL

\* a cache that keeps non-empty results only
StoreSuccessOnly(c, t, result) ==
  IF result.escaped \/ result.frame = EmptyFrame THEN c
  ELSE [valid |-> TRUE, at |-> t, value |-> result.frame]

\* what a call stores: every value the function returns, the empty frame of
\* the except clause included; nothing when the exception escapes
Store(c, t, result) ==
  IF result.escaped THEN c
  ELSE [valid |-> TRUE, at |-> t, value |-> result.frame]

\* lines 22 and 39: the memoized call
CachedCall(c, t, response) ==
  IF CacheHit(c, t)
    THEN [fetched |-> FALSE, escaped |-> FALSE, frame |-> c.value, cache |-> c]
  ELSE LET result == get_clean_data(response)
       IN [fetched |-> TRUE, escaped |-> result.escaped, frame |-> result.frame,
           cache |-> Store(c, t, result)]

----------------------------------------------------------------------------
(* Sidebar: options and slider bounds, lines 48-76 *)

RECURSIVE Present(_, _)
\* df[col].dropna() as the set of its values
Present(df, col) ==
  IF df = <<>> THEN {}
  ELSE (IF IsMissing(Head(df)[col]) THEN {} ELSE {Val(Head(df)[col])})
         \cup Present(Tail(df), col)

\* line 48-49: the options of the species selectbox
SpeciesOptions(df) == {"All"} \cup Present(df, "COMMON")

SetMin(S) == CHOOSE m \in S : \A x \in S : m <= x
SetMax(S) == CHOOSE m \in S : \A x \in S : m >= x

\* df[col].min() and df[col].max(): NaN when no value is present
ColMin(df, col) ==
  IF Present(df, col) = {} THEN Missing ELSE Some(SetMin(Present(df, col)))
ColMax(df, col) ==
  IF Present(df, col) = {} THEN Missing ELSE Some(SetMax(Present(df, col)))

\* lines 52-53 and 61-62: int(NaN) raises ValueError
BoundsRaise(df) ==
  \E col \in {"HEIGHT", "DIAMETER"} : Present(df, col) = {}

LowerBound(df, col) == PyInt(Val(ColMin(df, col)))
UpperBound(df, col) == PyInt(Val(ColMax(df, col)))

\* lines 54-58 and 63-67: the pairs an integer range slider can return
\* between its bounds, and the pair it starts with
SliderValues(lo, hi) == {<<a, b>> \in (lo..hi) \X (lo..hi) : a <= b}
SliderDefault(lo, hi) == <<lo, hi>>

MapTypes == {"Markers", "Marker Cluster", "HeatMap"}

----------------------------------------------------------------------------
(* Filters, lines 79-95 *)

\* line 83: df['COMMON'] == choice, False on None
SpeciesMask(row, choice) == ~IsMissing(row.COMMON) /\ Val(row.COMMON) = choice

\* a range open at its upper end
RangeMaskExclusive(cell, range) ==
  /\ ~IsMissing(cell)
  /\ Val(cell) >= FloatOf(range[1])
  /\ Val(cell) < FloatOf(range[2])

\* lines 87-88 and 93-94: (col >= lo) & (col <= hi), False on NaN
RangeMask(cell, range) ==
  /\ ~IsMissing(cell)
  /\ Val(cell) >= FloatOf(range[1])
  /\ Val(cell) <= FloatOf(range[2])

\* lines 79-95
ApplyFilters(df, choice, height_range, diameter_range) ==
  LET bySpecies ==
        IF choice # "All"
          THEN SelectSeq(df, LAMBDA row : SpeciesMask(row, choice))
          ELSE df
      byHeight ==
        SelectSeq(bySpecies, LAMBDA row : RangeMask(row.HEIGHT, height_range))
  IN SelectSeq(byHeight, LAMBDA row : RangeMask(row.DIAMETER, diameter_range))

----------------------------------------------------------------------------
(* Map payload, lines 110-138 *)

\* line 112: [lat, lon] pairs
HeatPoint(row) ==
  [location |-> <<row.lat, row.lon>>, tooltip |-> Missing, layer |-> "heatmap"]

\* a cluster tooltip that formats the numbers without their units
ClusterTooltipNoUnits(row) ==
  "<b>" \o NameStr(row.COMMON) \o "</b><br>Height: " \o NumStr(row.HEIGHT)
    \o "<br>Diameter: " \o NumStr(row.DIAMETER)

\* line 118
ClusterTooltip(row) ==
  "<b>" \o NameStr(row.COMMON) \o "</b><br>Height: " \o NumStr(row.HEIGHT)
    \o " ft<br>Diameter: " \o NumStr(row.DIAMETER) \o " in"

\* line 130
MarkerTooltip(row) ==
  "<b>" \o NameStr(row.COMMON) \o "</b><br>Height: " \o NumStr(row.HEIGHT)
    \o " ft<br>Diameter: " \o NumStr(row.DIAMETER) \o " in"

\* lines 117-126
ClusterPoint(row) ==
  [location |-> <<row.lat, row.lon>>, tooltip |-> Some(ClusterTooltip(row)),
   layer |-> "cluster"]

\* lines 129-138
MarkerPoint(row) ==
  [location |-> <<row.lat, row.lon>>, tooltip |-> Some(MarkerTooltip(row)),
   layer |-> "map"]

\* lines 111-138: the three-way dispatch
BuildPoints(df_filtered, map_type) ==
  IF map_type = "HeatMap"
    THEN [i \in 1..Len(df_filtered) |-> HeatPoint(df_filtered[i])]
  ELSE IF map_type = "Marker Cluster"
    THEN [i \in 1..Len(df_filtered) |-> ClusterPoint(df_filtered[i])]
  ELSE [i \in 1..Len(df_filtered) |-> MarkerPoint(df_filtered[i])]

----------------------------------------------------------------------------
(* Metrics, lines 146-153 *)

RECURSIVE NuniqueCountNone(_)
\* nunique(dropna=False): None counted as a value
NuniqueCountNone(col) ==
  IF col = <<>> THEN 0
  ELSE LET rest == SubSeq(col, 1, Len(col) - 1)
           last == col[Len(col)]
       IN NuniqueCountNone(rest)
            + (IF \E i \in 1..Len(rest) : rest[i] = last THEN 0 ELSE 1)

RECURSIVE Nunique(_)
\* Series.nunique(): distinct values, None and NaN not counted
Nunique(col) ==
  IF col = <<>> THEN 0
  ELSE LET rest == SubSeq(col, 1, Len(col) - 1)
           last == col[Len(col)]
       IN Nunique(rest)
            + (IF IsMissing(last) \/ \E i \in 1..Len(rest) : rest[i] = last
                 THEN 0 ELSE 1)

Column(df, col) == [i \in 1..Len(df) |-> df[i][col]]

RECURSIVE SumPresent(_)
SumPresent(col) ==
  IF col = <<>> THEN 0
  ELSE (IF IsMissing(Head(col)) THEN 0 ELSE Val(Head(col))) + SumPresent(Tail(col))

RECURSIVE CountPresent(_)
CountPresent(col) ==
  IF col = <<>> THEN 0
  ELSE (IF IsMissing(Head(col)) THEN 0 ELSE 1) + CountPresent(Tail(col))

\* a mean that is 0 when no value is present
MeanZeroWhenEmpty(col) ==
  IF CountPresent(col) = 0 THEN Some(<<0, 1>>)
  ELSE Some(<<SumPresent(col), CountPresent(col)>>)

\* Series.mean(): the mean of the present values as the fraction
\* <<sum, count>> (in halves), NaN when there is none
Mean(col) ==
  IF CountPresent(col) = 0 THEN Missing
  ELSE Some(<<SumPresent(col), CountPresent(col)>>)

\* n / d to the nearest integer, ties to even (n >= 0, d > 0)
RoundHalfEven(n, d) ==
  LET q == n \div d
      r == n % d
  IN IF 2 * r < d THEN q
     ELSE IF 2 * r > d THEN q + 1
     ELSE IF q % 2 = 0 THEN q ELSE q + 1

\* f"{m:.1f}": one decimal; NaN prints as nan
FormatF1(m) ==
  IF IsMissing(m) THEN "nan"
  ELSE LET num == Val(m)[1]
           den == Val(m)[2]
           a == IF num >= 0 THEN num ELSE -num
           tenths == RoundHalfEven(5 * a, den)
       IN (IF num < 0 /\ tenths > 0 THEN "-" ELSE "")
            \o ToString(tenths \div 10) \o "." \o ToString(tenths % 10)

\* lines 148-153
Metrics(df_filtered) ==
  [total |-> Len(df_filtered),
   species |-> Nunique(Column(df_filtered, "COMMON")),
   mean_height |-> Mean(Column(df_filtered, "HEIGHT")),
   mean_diameter |-> Mean(Column(df_filtered, "DIAMETER")),
   avg_height |-> FormatF1(Mean(Column(df_filtered, "HEIGHT"))) \o " ft",
   avg_diameter |-> FormatF1(Mean(Column(df_filtered, "DIAMETER"))) \o " in"]

NoMetrics ==
  [total |-> 0, species |-> 0, mean_height |-> Missing, mean_diameter |-> Missing,
   avg_height |-> "", avg_diameter |-> ""]

----------------------------------------------------------------------------
(* CSV export, line 160 *)

\* a cell as to_csv writes it: None and NaN as the empty field
CsvName(o) == IF IsMissing(o) THEN "" ELSE Val(o)
CsvNum(o) == IF IsMissing(o) THEN "" ELSE FloatStr(Val(o))

RECURSIVE Join(_)
Join(fields) ==
  IF Len(fields) = 1 THEN fields[1]
  ELSE fields[1] \o "," \o Join(Tail(fields))

CsvRow(row) ==
  Join(<<CsvName(row.COMMON), CsvNum(row.HEIGHT), CsvNum(row.DIAMETER),
         CsvNum(row.lat), CsvNum(row.lon)>>)

\* df_filtered.to_csv(index=False): the header line, then one line per row
ToCsv(df_filtered) ==
  <<Join(Columns)>> \o [i \in 1..Len(df_filtered) |-> CsvRow(df_filtered[i])]

----------------------------------------------------------------------------
(* One run of the script *)

NoBounds == [min_height |-> 0, max_height |-> 0, min_diameter |-> 0, max_diameter |-> 0]

\* what a run leaves on the page; response is the answer to the HTTP request
\* the run issued, steps names the pipeline steps it executed
Page(view) ==
  [view |-> view, at |-> 0, fetched |-> FALSE, response |-> NoRequest,
   df |-> EmptyFrame, bounds |-> NoBounds, choice |-> "", height_range |-> <<>>,
   diameter_range |-> <<>>, map_type |-> "", steps |-> {},
   df_filtered |-> EmptyFrame, points |-> <<>>, metrics |-> NoMetrics, csv |-> <<>>]

\* lines 52-53, 61-62
SliderBounds(df) ==
  [min_height |-> LowerBound(df, "HEIGHT"), max_height |-> UpperBound(df, "HEIGHT"),
   min_diameter |-> LowerBound(df, "DIAMETER"),
   max_diameter |-> UpperBound(df, "DIAMETER")]

\* the fields every run sets: when it ran and what the memoized call did
Ran(view, call, response) ==
  [Page(view) EXCEPT
     !.at = now, !.fetched = call.fetched,
     !.response = IF call.fetched THEN response ELSE NoRequest]

\* lines 42-167: the dashboard for the widget values of this run
Dashboard(page, df, choice, height_range, diameter_range, map_type) ==
  LET df_filtered == ApplyFilters(df, choice, height_range, diameter_range)
  IN [page EXCEPT
        !.df = df,
        !.bounds = SliderBounds(df), !.choice = choice,
        !.height_range = height_range, !.diameter_range = diameter_range,
        !.map_type = map_type,
        !.steps = {"filter", "map", "metrics", "export"},
        !.df_filtered = df_filtered,
        !.points = BuildPoints(df_filtered, map_type),
        !.metrics = Metrics(df_filtered),
        !.csv = ToCsv(df_filtered)]

\* lines 39-173: one run of the script, the service answering response if asked
Run(response) ==
  LET call == CachedCall(cache, now, response)
      df == call.frame
  IN /\ cache' = call.cache
     /\ UNCHANGED now
     /\ IF call.escaped
          \* line 39 raised
          THEN run' = Ran("exception", call, response)
        ELSE IF df = EmptyFrame
          \* lines 170-173
          THEN run' = Ran("error", call, response)
        ELSE IF BoundsRaise(df)
          \* lines 52-62 raised
          THEN run' = [Ran("exception", call, response) EXCEPT !.df = df]
        ELSE LET b == SliderBounds(df)
             IN \E choice \in SpeciesOptions(df),
                   height_range \in SliderValues(b.min_height, b.max_height),
                   diameter_range \in SliderValues(b.min_diameter, b.max_diameter),
                   map_type \in MapTypes :
                  run' = Dashboard(Ran("dashboard", call, response), df, choice,
                                   height_range, diameter_range, map_type)

----------------------------------------------------------------------------
(* The full system *)

\* the clock advances by half a time-to-live
Tick ==
  /\ now + TTL \div 2 <= MaxTicks * (TTL \div 2)
  /\ now' = now + TTL \div 2
  /\ UNCHANGED <<cache, run>>

\* features the full system is checked with: a tree, a tree whose height is
\* missing, a feature without geometry and a feature with a null latitude
SystemFeatures ==
  {[properties |-> [COMMON |-> Some("Oak"), HEIGHT |-> Some(5), DIAMETER |-> Some(2)],
    geometry |-> Point(Some(-245), Some(91))],
   [properties |-> [COMMON |-> Some("Oak"), HEIGHT |-> Missing, DIAMETER |-> Some(2)],
    geometry |-> Point(Some(-245), Some(90))],
   [properties |-> [COMMON |-> Some("Oak"), HEIGHT |-> Some(2), DIAMETER |-> Some(2)],
    geometry |-> NullGeometry],
   [properties |-> [COMMON |-> Some("Oak"), HEIGHT |-> Some(5), DIAMETER |-> Some(2)],
    geometry |-> Point(Some(-245), Missing)]}

SystemResponses ==
  Failures \cup {OkResponse(fs) : fs \in SeqsUpTo(SystemFeatures, MaxFeatures)}

\* a run of the script; the service is asked only when the memoized call
\* misses, and then it fails or answers
SystemRun ==
  IF CacheHit(cache, now) THEN Run(NoRequest)
  ELSE \E response \in SystemResponses : Run(response)

Init ==
  /\ cache = NoEntry
  /\ now = 0
  /\ run = Page("none")

Next == SystemRun \/ Tick

Spec == Init /\ [][Next]_vars

----------------------------------------------------------------------------
(* The pipeline on its own: the first run of a session, on every dataset   *)
(* of well-formed features                                                 *)

\* where a tree of the catalogue stands: its latitude goes with its diameter
LatOf(p) == IF IsMissing(p.DIAMETER) THEN 90 ELSE 89 + Val(p.DIAMETER) \div 2

PipelineFeatures ==
  {[properties |-> p, geometry |-> Point(Some(-245), Some(LatOf(p)))] :
     p \in Properties}

PipelineResponses ==
  {OkResponse(fs) : fs \in SeqsUpTo(PipelineFeatures, MaxRecords)}

FirstRun ==
  /\ run.view = "none"
  /\ \E response \in PipelineResponses : Run(response)

PipelineNext == FirstRun

PipelineSpec == Init /\ [][PipelineNext]_vars

----------------------------------------------------------------------------
(* Claims *)

Rows(df) == {df[i] : i \in 1..Len(df)}

\* a feature with a geometry and a longitude and latitude that are numbers
WellFormed(f) ==
  /\ f.geometry.present
  /\ Len(f.geometry.coordinates) >= 2
  /\ ~IsMissing(f.geometry.coordinates[1])
  /\ ~IsMissing(f.geometry.coordinates[2])

InRange(cell, range) ==
  /\ ~IsMissing(cell)
  /\ FloatOf(range[1]) <= Val(cell)
  /\ Val(cell) <= FloatOf(range[2])

\* C1: the filtered subset is exactly the records of the dataset, in dataset
\* order, whose name is the choice (or the choice is All), whose height is
\* present and inside the height range, and whose diameter is present and
\* inside the diameter range.
C1_FilterExact ==
  run.view = "dashboard" =>
    run.df_filtered =
      SelectSeq(run.df,
                LAMBDA row :
                  /\ run.choice = "All" \/ row.COMMON = Some(run.choice)
                  /\ InRange(row.HEIGHT, run.height_range)
                  /\ InRange(row.DIAMETER, run.diameter_range))

\* a species is chosen, one of two records is kept, and a record with a
\* missing height is in the dataset
C1_Witness ==
  /\ run.view = "dashboard"
  /\ run.choice # "All"
  /\ Len(run.df) = 2
  /\ Len(run.df_filtered) = 1
  /\ \E row \in Rows(run.df) : IsMissing(row.HEIGHT)

\* C2: a fetch that meets a network or parse failure returns the empty
\* dataset and raises nothing; a run whose dataset is empty shows the error
\* view and executes no filter, map, metrics or export step.
C2_FailureShowsOnlyError ==
  /\ (run.fetched /\ run.response \in Failures) =>
       (run.view = "error" /\ run.df = EmptyFrame)
  /\ (run.view # "none" /\ run.df = EmptyFrame) =>
       /\ run.view = "error"
       /\ run.steps = {}
       /\ run.points = <<>>
       /\ run.csv = <<>>
       /\ run.metrics = NoMetrics

C2_Witness ==
  /\ run.fetched
  /\ run.response = InvalidJson
  /\ run.view = "error"

\* C3: a fetch that is answered returns one record for every well-formed
\* feature of the response, in response order, and none for a malformed
\* feature, so every record has a latitude and a longitude.
C3_MalformedDropped ==
  (run.fetched /\ run.response.status = "ok") =>
    LET good == SelectSeq(run.response.features, WellFormed)
    IN /\ run.df = [i \in 1..Len(good) |-> FeatureRow(good[i])]
       /\ \A row \in Rows(run.df) : ~IsMissing(row.lat) /\ ~IsMissing(row.lon)

\* C4: while a non-empty dataset is cached, a call made less than the
\* time-to-live after its fetch returns it and issues no request; a call made
\* once the time-to-live has elapsed issues a request, and what it returns
\* replaces the entry as a whole.
C4_TtlWindow ==
  [][(run' # run /\ cache.valid /\ cache.value # EmptyFrame) =>
       IF now - cache.at < TTL
         THEN /\ ~run'.fetched
              /\ run'.df = cache.value
              /\ cache' = cache
         ELSE /\ run'.fetched
              /\ run'.response # NoRequest
              /\ cache' = [valid |-> TRUE, at |-> now, value |-> run'.df]]_vars

\* a run later in the window served from the cache
C4_Witness ==
  /\ run.view = "dashboard"
  /\ ~run.fetched
  /\ cache.valid
  /\ run.at > cache.at
  /\ run.df = cache.value

\* C5: when the dataset is not empty and the criteria match no record, the
\* run completes: tree count 0, species count 0, both means NaN, no point
\* for the map, and a CSV of the header row only.
C5_EmptySubset ==
  (run.df # EmptyFrame /\ "filter" \in run.steps /\ run.df_filtered = <<>>) =>
    /\ run.view = "dashboard"
    /\ run.steps = {"filter", "map", "metrics", "export"}
    /\ run.metrics.total = 0
    /\ run.metrics.species = 0
    /\ run.metrics.mean_height = Missing
    /\ run.metrics.mean_diameter = Missing
    /\ run.metrics.avg_height = "nan ft"
    /\ run.metrics.avg_diameter = "nan in"
    /\ run.points = <<>>
    /\ run.csv = <<"COMMON,HEIGHT,DIAMETER,lat,lon">>

C5_Witness ==
  /\ run.view = "dashboard"
  /\ Len(run.df) = 2
  /\ run.df_filtered = <<>>
  /\ run.map_type = "HeatMap"
  /\ run.csv # <<>>

\* C6: Total Trees is the number of records of the subset, Species Count the
\* number of distinct names present among them, never more than the total.
C6_Counts ==
  run.view = "dashboard" =>
    /\ run.metrics.total = Len(run.df_filtered)
    /\ run.metrics.species =
         Cardinality({row.COMMON : row \in Rows(run.df_filtered)} \ {Missing})
    /\ run.metrics.species <= run.metrics.total

\* two records, one of them unnamed
C6_Witness ==
  /\ run.view = "dashboard"
  /\ Len(run.df_filtered) = 2
  /\ \E row \in Rows(run.df_filtered) : IsMissing(row.COMMON)
  /\ run.metrics.species = 1

\* C7: the map gets one point per record of the subset, in subset order, at
\* the record's coordinates; a heat map point has no tooltip, a marker has
\* the tooltip of its record, which is the same text in Markers and Marker
\* Cluster mode, the two differing only in the layer the marker is added to.
C7_Points ==
  run.view = "dashboard" =>
    /\ Len(run.points) = Len(run.df_filtered)
    /\ \A i \in 1..Len(run.points) :
         LET row == run.df_filtered[i]
             point == run.points[i]
         IN /\ point.location = <<row.lat, row.lon>>
            /\ run.map_type = "HeatMap" => point.tooltip = Missing
            /\ run.map_type # "HeatMap" =>
                 /\ point.tooltip = Some(MarkerTooltip(row))
                 /\ point.tooltip = Some(ClusterTooltip(row))
                 /\ point.layer =
                      (IF run.map_type = "Marker Cluster" THEN "cluster" ELSE "map")

\* two clustered markers at different places
C7_Witness ==
  /\ run.view = "dashboard"
  /\ run.map_type = "Marker Cluster"
  /\ Len(run.points) = 2
  /\ run.points[1].location # run.points[2].location
  /\ run.points[1].tooltip # run.points[2].tooltip

\* C8: a run on a non-empty dataset completes; the error view is the only
\* failure a run can end in.
C8_NoRunRaises ==
  /\ run.view \in {"none", "dashboard", "error"}
  /\ (run.view # "none" /\ run.df # EmptyFrame) => run.view = "dashboard"

\* C9: the slider bounds are the observed minimum and maximum of the column,
\* and with the default criteria every record whose height and diameter are
\* present is in the subset.
C9_DefaultKeepsAll ==
  run.view = "dashboard" =>
    /\ FloatOf(run.bounds.min_height) = Val(ColMin(run.df, "HEIGHT"))
    /\ FloatOf(run.bounds.max_height) = Val(ColMax(run.df, "HEIGHT"))
    /\ FloatOf(run.bounds.min_diameter) = Val(ColMin(run.df, "DIAMETER"))
    /\ FloatOf(run.bounds.max_diameter) = Val(ColMax(run.df, "DIAMETER"))
    /\ run.bounds.min_height <= run.bounds.max_height
    /\ run.bounds.min_diameter <= run.bounds.max_diameter
    /\ ( /\ run.choice = "All"
         /\ run.height_range =
              SliderDefault(run.bounds.min_height, run.bounds.max_height)
         /\ run.diameter_range =
              SliderDefault(run.bounds.min_diameter, run.bounds.max_diameter) ) =>
         run.df_filtered =
           SelectSeq(run.df,
                     LAMBDA row : ~IsMissing(row.HEIGHT) /\ ~IsMissing(row.DIAMETER))

\* C10: a failed fetch is memoized like any other: after a run whose fetch
\* came back empty, and while that empty dataset is cached, a call made less
\* than the time-to-live after the fetch issues no request and the run shows
\* the error view again.
C10_FailureMemoized ==
  [][(/\ run' # run
      /\ \/ run.fetched /\ run.view = "error" /\ now - run.at < TTL
         \/ cache.valid /\ cache.value = EmptyFrame /\ now - cache.at < TTL) =>
       /\ ~run'.fetched
       /\ run'.view = "error"
       /\ cache' = cache
       /\ cache.valid]_vars

\* the error view served from the cache later in the window
C10_Witness ==
  /\ run.view = "error"
  /\ ~run.fetched
  /\ cache.valid
  /\ cache.value = EmptyFrame
  /\ run.at > cache.at

====
